---- MODULE Spec2Model ----
(***************************************************************************)
(* tcp-test: channel()/channel_on() hand a connected TcpStream pair to the *)
(* calling test thread.  A Once-guarded setup binds one TcpListener and    *)
(* spawns the listener thread and the channel thread; the two background   *)
(* threads hand the accepted stream over through a private slot `buf`, and *)
(* the channel thread hands finished pairs to callers through the global   *)
(* slot STREAM.  Both slots are a Mutex<Option<..>> with a Condvar.        *)
(*                                                                         *)
(* An Option is modelled as a sequence of length 0 (None) or 1 (Some), a   *)
(* Mutex as the Option of its owner, a Condvar as the set of threads       *)
(* blocked in wait().                                                      *)
(***************************************************************************)
EXTENDS Integers, Sequences, FiniteSets, TLC

\* ------------------------------------------------------------- bounds
NumCallers == 2
SpareConnects == 3
MaxLen == 2
MaxByte == 1

MaxConn == NumCallers + SpareConnects

\* ------------------------------------------------------------ threads
Callers == 1..NumCallers
ListenerThread == NumCallers + 1
ChannelThread == NumCallers + 2

\* ---------------------------------------------------------- addresses
DEFAULT_ADDRESS == 31398
OtherAddress == DEFAULT_ADDRESS + 1

\* The port the host stack gives the k-th outgoing connection.
EphemeralPort(k) == 49152 + k

\* What <impl ToSocketAddrs>::to_socket_addrs() yields for an address
\* specification: an error, or the candidates in order.
ToSocketAddrs(spec) ==
    CASE spec = "default" -> [ok |-> TRUE, addrs |-> <<DEFAULT_ADDRESS>>]
      [] spec = "other" -> [ok |-> TRUE, addrs |-> <<OtherAddress, DEFAULT_ADDRESS>>]
      [] spec = "empty" -> [ok |-> TRUE, addrs |-> <<>>]
      [] OTHER -> [ok |-> FALSE, addrs |-> <<>>]

Specs == {"default", "other", "empty", "invalid"}
GoodSpecs == {s \in Specs : ToSocketAddrs(s).ok /\ ToSocketAddrs(s).addrs # <<>>}

VARIABLES
    only_panic,     \* the build's feature flag
    exitCode,       \* Option: the status process::exit() was called with
    SPAWN_SERVER,   \* state of the Once
    address,        \* Option: the address resolved by the setup closure
    listener,       \* Option: the address the open TcpListener is bound to
    count,          \* how often the setup body ran, bound, spawned each thread
    setupFail,      \* the setup step that panicked, "none" if none did
    pc,             \* per caller: position in channel_on
    spec,           \* per caller: Option, the `address` argument it still owns
    STREAM,         \* Option<(TcpStream, TcpStream)>: the delivery slot
    streamLock,     \* Option: owner of STREAM's mutex
    streamWait,     \* threads blocked in wait() on STREAM's condvar
    buf,            \* Option<TcpStream>: listener -> channel thread slot
    bufLock,        \* Option: owner of buf's mutex
    bufWait,        \* threads blocked in wait() on buf's condvar
    backlog,        \* connections made and not yet accepted
    nconn,          \* connections made by the channel thread
    lt,             \* position of the listener thread
    ltI,            \* Option: the stream `i` the listener thread holds
    ct,             \* position of the channel thread
    ctLocal,        \* Option: the channel thread's `local`
    ctRemote,       \* Option: the channel thread's `remote`
    taken,          \* history: the pairs callers took out of STREAM, in order
    failure,        \* history: Option, the pairs taken and the connections
                    \* made when a background thread first failed
    wire,           \* per connection: the bytes written to the initiator's
                    \* stream and not yet read from the acceptor's
    ra              \* one use of read_assert!: its arguments and outcome

vars == <<only_panic, exitCode, SPAWN_SERVER, address, listener, count,
          setupFail, pc, spec, STREAM, streamLock, streamWait, buf, bufLock,
          bufWait, backlog, nconn, lt, ltI, ct, ctLocal, ctRemote, taken,
          failure, wire, ra>>

ioVars == <<wire, ra>>
setupVars == <<SPAWN_SERVER, address, listener, count, setupFail>>
streamVars == <<STREAM, streamLock, streamWait>>
bufVars == <<buf, bufLock, bufWait>>
ltVars == <<lt, ltI>>
ctVars == <<ct, ctLocal, ctRemote>>
netVars == <<backlog, nconn>>

Running == exitCode = <<>>

\* ----------------------------------------------------- Option, Condvar
IsNone(slot) == slot = <<>>

\* Condvar::notify_one: the possible wait sets afterwards.
NotifyOne(waiters) ==
    IF waiters = {} THEN {{}} ELSE {waiters \ {t} : t \in waiters}

\* Condvar::notify_all: the wait set afterwards.
NotifyAll(waiters) == {}

\* read_assert! has not been used.
NoReadAssert ==
    [resource |-> <<>>, n |-> 0, expected |-> <<>>, result |-> "pending"]

InitProgram ==
    /\ only_panic \in BOOLEAN
    /\ exitCode = <<>>
    /\ SPAWN_SERVER = "incomplete"
    /\ address = <<>>
    /\ listener = <<>>
    /\ count = [runs |-> 0, binds |-> 0, listeners |-> 0, channels |-> 0]
    /\ setupFail = "none"
    /\ pc = [c \in Callers |-> "idle"]
    /\ spec = [c \in Callers |-> <<>>]
    /\ STREAM = <<>>
    /\ streamLock = <<>>
    /\ streamWait = {}
    /\ buf = <<>>
    /\ bufLock = <<>>
    /\ bufWait = {}
    /\ backlog = <<>>
    /\ nconn = 0
    /\ lt = "none"
    /\ ltI = <<>>
    /\ ct = "none"
    /\ ctLocal = <<>>
    /\ ctRemote = <<>>
    /\ taken = <<>>
    /\ failure = <<>>
    /\ wire = [k \in 1..MaxConn |-> <<>>]

Init ==
    /\ InitProgram
    /\ ra = NoReadAssert

\* ------------------------------------------------- listen_on, the Once
\* Once::call_once takes its fast path when the Once is completed.
OnceNeverCompleted(state) == FALSE
OnceIsCompleted(state) == state = "complete"

\* Once::call_once panics when an earlier run of the closure panicked.
OnceNeverPoisoned(state) == FALSE
OnceIsPoisoned(state) == state = "poisoned"

\* The steps of the closure given to call_once, in program order.
SpawnBeforeBind == <<"resolve", "spawn_listener", "bind", "spawn_channel">>
SetupOrder == <<"resolve", "bind", "spawn_listener", "spawn_channel">>

SetupSteps == {SetupOrder[i] : i \in 1..Len(SetupOrder)}

NextSetupStep(step) ==
    LET i == CHOOSE j \in 1..Len(SetupOrder) : SetupOrder[j] = step
    IN  IF i = Len(SetupOrder) THEN "done" ELSE SetupOrder[i + 1]

\* The closure's step `step` succeeded: go on, or complete the Once and
\* return from listen_on to channel_on's lock().
Advance(c, step) ==
    IF NextSetupStep(step) = "done"
    THEN /\ SPAWN_SERVER' = "complete"
         /\ pc' = [pc EXCEPT ![c] = "lock"]
    ELSE /\ pc' = [pc EXCEPT ![c] = NextSetupStep(step)]
         /\ UNCHANGED SPAWN_SERVER

\* An expect() of the closure panics: the panic unwinds through call_once,
\* which poisons the Once, and ends the calling thread.
SetupPanics(c, step) ==
    /\ SPAWN_SERVER' = "poisoned"
    /\ setupFail' = step
    /\ pc' = [pc EXCEPT ![c] = "panicked"]

\* A test thread calls channel() or channel_on(address).  The argument is
\* moved into listen_on's closure and dropped when call_once is done with it.
StartCall(c, s) ==
    /\ Running
    /\ pc[c] = "idle"
    /\ pc' = [pc EXCEPT ![c] = "call_once"]
    /\ spec' = [spec EXCEPT ![c] = <<s>>]
    /\ UNCHANGED <<ioVars, only_panic, exitCode, setupVars, streamVars, bufVars,
                   netVars, ltVars, ctVars, taken, failure>>

\* SPAWN_SERVER.call_once(..): return at once when completed, panic when
\* poisoned, block while another thread runs the closure, else run it.
CallOnce(c) ==
    /\ Running
    /\ pc[c] = "call_once"
    /\ IF OnceIsCompleted(SPAWN_SERVER)
       THEN /\ pc' = [pc EXCEPT ![c] = "lock"]
            /\ spec' = [spec EXCEPT ![c] = <<>>]
            /\ UNCHANGED <<SPAWN_SERVER, count>>
       ELSE IF OnceIsPoisoned(SPAWN_SERVER)
       THEN /\ pc' = [pc EXCEPT ![c] = "panicked"]
            /\ spec' = [spec EXCEPT ![c] = <<>>]
            /\ UNCHANGED <<SPAWN_SERVER, count>>
       ELSE /\ SPAWN_SERVER # "running"
            /\ SPAWN_SERVER' = "running"
            /\ count' = [count EXCEPT !.runs = @ + 1]
            /\ pc' = [pc EXCEPT ![c] = SetupOrder[1]]
            /\ UNCHANGED spec
    /\ UNCHANGED <<ioVars, only_panic, exitCode, address, listener, setupFail,
                   streamVars, bufVars, netVars, ltVars, ctVars, taken,
                   failure>>

\* address.to_socket_addrs().expect(..).next().expect(..)
ResolveOk(c) ==
    /\ Running
    /\ pc[c] = "resolve"
    /\ ToSocketAddrs(spec[c][1]).ok
    /\ ToSocketAddrs(spec[c][1]).addrs # <<>>
    /\ address' = <<Head(ToSocketAddrs(spec[c][1]).addrs)>>
    /\ spec' = [spec EXCEPT ![c] = <<>>]
    /\ Advance(c, "resolve")
    /\ UNCHANGED <<ioVars, only_panic, exitCode, listener, count, setupFail,
                   streamVars, bufVars, netVars, ltVars, ctVars, taken,
                   failure>>

ResolveFail(c) ==
    /\ Running
    /\ pc[c] = "resolve"
    /\ ~ToSocketAddrs(spec[c][1]).ok \/ ToSocketAddrs(spec[c][1]).addrs = <<>>
    /\ spec' = [spec EXCEPT ![c] = <<>>]
    /\ SetupPanics(c, "resolve")
    /\ UNCHANGED <<ioVars, only_panic, exitCode, address, listener, count,
                   streamVars, bufVars, netVars, ltVars, ctVars, taken,
                   failure>>

\* TcpListener::bind(address) returned Ok.
BindOk(c) ==
    /\ Running
    /\ pc[c] = "bind"
    /\ listener' = address
    /\ count' = [count EXCEPT !.binds = @ + 1]
    /\ Advance(c, "bind")
    /\ UNCHANGED <<ioVars, only_panic, exitCode, address, setupFail, spec,
                   streamVars, bufVars, netVars, ltVars, ctVars, taken,
                   failure>>

\* Builder::spawn of the listener thread returned Ok.
SpawnListenerOk(c) ==
    /\ Running
    /\ pc[c] = "spawn_listener"
    /\ lt' = "accept"
    /\ count' = [count EXCEPT !.listeners = @ + 1]
    /\ Advance(c, "spawn_listener")
    /\ UNCHANGED <<ioVars, only_panic, exitCode, address, listener, setupFail, spec,
                   streamVars, bufVars, netVars, ltI, ctVars, taken, failure>>

\* Builder::spawn of the channel thread returned Ok.
SpawnChannelOk(c) ==
    /\ Running
    /\ pc[c] = "spawn_channel"
    /\ ct' = "connect"
    /\ count' = [count EXCEPT !.channels = @ + 1]
    /\ Advance(c, "spawn_channel")
    /\ UNCHANGED <<ioVars, only_panic, exitCode, address, listener, setupFail, spec,
                   streamVars, bufVars, netVars, ltVars, ctLocal, ctRemote,
                   taken, failure>>

\* bind() or a spawn() returned Err: its expect() panics.
SetupFail(c) ==
    /\ Running
    /\ pc[c] \in SetupSteps \ {"resolve"}
    /\ SetupPanics(c, pc[c])
    /\ UNCHANGED <<ioVars, only_panic, exitCode, address, listener, count, spec,
                   streamVars, bufVars, netVars, ltVars, ctVars, taken,
                   failure>>

\* ----------------------------------------------------------- channel_on
\* The loop condition buf.is_none() of channel_on.
CallerMustWait(slot) == IsNone(slot)

\* STREAM after mem::replace(&mut *buf, None) in channel_on.
SlotKeptAfterTake(slot) == slot
SlotAfterTake(slot) == <<>>

\* channel_on's cvar.notify_all() after emptying STREAM.
CallerNotifiesNobody(waiters) == waiters
CallerNotify(waiters) == NotifyAll(waiters)

\* lock.lock().unwrap() on STREAM, also after a wakeup inside wait().
CallerLock(c) ==
    /\ Running
    /\ \/ pc[c] = "lock"
       \/ pc[c] = "wait" /\ c \notin streamWait
    /\ IsNone(streamLock)
    /\ streamLock' = <<c>>
    /\ pc' = [pc EXCEPT ![c] = "check"]
    /\ UNCHANGED <<ioVars, only_panic, exitCode, setupVars, spec, STREAM, streamWait,
                   bufVars, netVars, ltVars, ctVars, taken, failure>>

\* while buf.is_none() { buf = cvar.wait(buf).unwrap(); }
CallerWait(c) ==
    /\ Running
    /\ pc[c] = "check"
    /\ CallerMustWait(STREAM)
    /\ streamLock' = <<>>
    /\ streamWait' = streamWait \cup {c}
    /\ pc' = [pc EXCEPT ![c] = "wait"]
    /\ UNCHANGED <<ioVars, only_panic, exitCode, setupVars, spec, STREAM, bufVars,
                   netVars, ltVars, ctVars, taken, failure>>

\* mem::replace(&mut *buf, None); cvar.notify_all(); channel.unwrap()
CallerTake(c) ==
    /\ Running
    /\ pc[c] = "check"
    /\ ~CallerMustWait(STREAM)
    /\ taken' = Append(taken, [by |-> c, pair |-> Head(STREAM)])
    /\ STREAM' = SlotAfterTake(STREAM)
    /\ streamWait' = CallerNotify(streamWait)
    /\ streamLock' = <<>>
    /\ pc' = [pc EXCEPT ![c] = "returned"]
    /\ UNCHANGED <<ioVars, only_panic, exitCode, setupVars, spec, bufVars, netVars,
                   ltVars, ctVars, failure>>

\* ------------------------------------------------- background failures
\* The map_err closure given to a background thread's result in listen_on:
\* cfg!(feature = "only_panic") selects panic!, otherwise process::exit(1).
NeverExits(feature) == FALSE
ExitsProcess(feature) == ~feature

\* Where a background thread is once its function has returned Err.
ThreadRetries(position, feature) == position
ThreadAfterError(position, feature) ==
    IF feature THEN "panicked" ELSE "exited"

Escalate ==
    /\ exitCode' = IF ExitsProcess(only_panic) THEN <<1>> ELSE exitCode
    /\ failure' = IF failure = <<>>
                  THEN <<[returned |-> Len(taken), conns |-> nconn]>>
                  ELSE failure

\* ------------------------------------------------------ listener_thread
\* The loop condition buf.is_some() of listener_thread.
ListenerMustWait(slot) == ~IsNone(slot)

\* listener.incoming() yields Ok(i) for the oldest pending connection.
Accept ==
    /\ Running
    /\ lt = "accept"
    /\ backlog # <<>>
    /\ listener # <<>>
    /\ ltI' = <<[conn |-> Head(backlog).conn,
                 local_addr |-> listener[1],
                 peer_addr |-> Head(backlog).from]>>
    /\ backlog' = Tail(backlog)
    /\ lt' = "lock"
    /\ UNCHANGED <<ioVars, only_panic, exitCode, setupVars, pc, spec, streamVars,
                   bufVars, nconn, ctVars, taken, failure>>

\* listener.incoming() yields Err: `i?` returns it from listener_thread,
\* which drops the TcpListener.
AcceptFail ==
    /\ Running
    /\ lt = "accept"
    /\ Escalate
    /\ lt' = ThreadAfterError(lt, only_panic)
    /\ listener' = <<>>
    /\ backlog' = <<>>
    /\ UNCHANGED <<ioVars, only_panic, SPAWN_SERVER, address, count, setupFail, pc,
                   spec, streamVars, bufVars, nconn, ltI, ctVars, taken>>

\* lock.lock() on buf, also after a wakeup inside wait().
ListenerLock ==
    /\ Running
    /\ \/ lt = "lock"
       \/ lt = "wait" /\ ListenerThread \notin bufWait
    /\ IsNone(bufLock)
    /\ bufLock' = <<ListenerThread>>
    /\ lt' = "check"
    /\ UNCHANGED <<ioVars, only_panic, exitCode, setupVars, pc, spec, streamVars,
                   buf, bufWait, netVars, ltI, ctVars, taken, failure>>

\* while buf.is_some() { buf = cvar.wait(buf)?; } and then
\* *buf = Some(i); cvar.notify_one(); after which the guard is dropped.
ListenerCheck ==
    /\ Running
    /\ lt = "check"
    /\ IF ListenerMustWait(buf)
       THEN /\ bufWait' = bufWait \cup {ListenerThread}
            /\ lt' = "wait"
            /\ UNCHANGED <<buf, ltI>>
       ELSE /\ buf' = ltI
            /\ ltI' = <<>>
            /\ bufWait' \in NotifyOne(bufWait)
            /\ lt' = "accept"
    /\ bufLock' = <<>>
    /\ UNCHANGED <<ioVars, only_panic, exitCode, setupVars, pc, spec, streamVars,
                   netVars, ctVars, taken, failure>>

\* ------------------------------------------------------- channel_thread
\* The loop condition remote.is_none() of channel_thread.
ChannelMustWaitRemote(slot) == IsNone(slot)

\* buf after mem::replace(&mut *remote, None) in channel_thread.
RemoteKeptAfterTake(slot) == slot
RemoteAfterTake(slot) == <<>>

\* buf's mutex when the block that computes `remote` ends: the guard is
\* dropped there, before STREAM is locked.
RemoteGuardKept(owner) == owner
RemoteGuardDropped(owner) == <<>>

\* The tuple (local, remote) written into STREAM.
MakePairSwapped(local, remote) == [local |-> remote, remote |-> local]
MakePair(local, remote) == [local |-> local, remote |-> remote]

\* The loop condition stream.is_some() of channel_thread.
ChannelNeverWaits(slot) == FALSE
ChannelMustWaitStream(slot) == ~IsNone(slot)

\* TcpStream::connect(address) returned Ok: the connection is pending at
\* the listener.
Connect ==
    /\ Running
    /\ ct = "connect"
    /\ nconn < MaxConn
    /\ listener # <<>>
    /\ nconn' = nconn + 1
    /\ ctLocal' = <<[conn |-> nconn + 1,
                     local_addr |-> EphemeralPort(nconn + 1),
                     peer_addr |-> address[1]]>>
    /\ backlog' = Append(backlog, [conn |-> nconn + 1,
                                   from |-> EphemeralPort(nconn + 1)])
    /\ ct' = "lock_buf"
    /\ UNCHANGED <<ioVars, only_panic, exitCode, setupVars, pc, spec, streamVars,
                   bufVars, ltVars, ctRemote, taken, failure>>

\* TcpStream::connect(address) returned Err: `?` returns it.
ConnectFail ==
    /\ Running
    /\ ct = "connect"
    /\ Escalate
    /\ ct' = ThreadAfterError(ct, only_panic)
    /\ UNCHANGED <<ioVars, only_panic, setupVars, pc, spec, streamVars, bufVars,
                   netVars, ltVars, ctLocal, ctRemote, taken>>

\* lock.lock() on buf, also after a wakeup inside wait().
ChannelLockBuf ==
    /\ Running
    /\ \/ ct = "lock_buf"
       \/ ct = "wait_buf" /\ ChannelThread \notin bufWait
    /\ IsNone(bufLock)
    /\ bufLock' = <<ChannelThread>>
    /\ ct' = "check_buf"
    /\ UNCHANGED <<ioVars, only_panic, exitCode, setupVars, pc, spec, streamVars,
                   buf, bufWait, netVars, ltVars, ctLocal, ctRemote, taken,
                   failure>>

\* while remote.is_none() { remote = cvar.wait(remote)?; }
ChannelWaitBuf ==
    /\ Running
    /\ ct = "check_buf"
    /\ ChannelMustWaitRemote(buf)
    /\ bufLock' = <<>>
    /\ bufWait' = bufWait \cup {ChannelThread}
    /\ ct' = "wait_buf"
    /\ UNCHANGED <<ioVars, only_panic, exitCode, setupVars, pc, spec, streamVars,
                   buf, netVars, ltVars, ctLocal, ctRemote, taken, failure>>

\* mem::replace(&mut *remote, None).unwrap(), and the block's guard is
\* dropped; the condvar is not notified.
ChannelTakeRemote ==
    /\ Running
    /\ ct = "check_buf"
    /\ ~ChannelMustWaitRemote(buf)
    /\ ctRemote' = buf
    /\ buf' = RemoteAfterTake(buf)
    /\ bufLock' = RemoteGuardDropped(bufLock)
    /\ ct' = "lock_stream"
    /\ UNCHANGED <<ioVars, only_panic, exitCode, setupVars, pc, spec, streamVars,
                   bufWait, netVars, ltVars, ctLocal, taken, failure>>

\* lock.lock() on STREAM, also after a wakeup inside wait().
ChannelLockStream ==
    /\ Running
    /\ \/ ct = "lock_stream"
       \/ ct = "wait_stream" /\ ChannelThread \notin streamWait
    /\ IsNone(streamLock)
    /\ streamLock' = <<ChannelThread>>
    /\ ct' = "check_stream"
    /\ UNCHANGED <<ioVars, only_panic, exitCode, setupVars, pc, spec, STREAM,
                   streamWait, bufVars, netVars, ltVars, ctLocal, ctRemote,
                   taken, failure>>

\* while stream.is_some() { stream = cvar.wait(stream)?; }
ChannelWaitStream ==
    /\ Running
    /\ ct = "check_stream"
    /\ ChannelMustWaitStream(STREAM)
    /\ streamLock' = <<>>
    /\ streamWait' = streamWait \cup {ChannelThread}
    /\ ct' = "wait_stream"
    /\ UNCHANGED <<ioVars, only_panic, exitCode, setupVars, pc, spec, STREAM,
                   bufVars, netVars, ltVars, ctLocal, ctRemote, taken,
                   failure>>

\* *stream = Some((local, remote)); cvar.notify_one(); and the guard is
\* dropped at the end of the loop body.
ChannelDeliver ==
    /\ Running
    /\ ct = "check_stream"
    /\ ~ChannelMustWaitStream(STREAM)
    /\ STREAM' = <<MakePair(ctLocal[1], ctRemote[1])>>
    /\ ctLocal' = <<>>
    /\ ctRemote' = <<>>
    /\ streamWait' \in NotifyOne(streamWait)
    /\ streamLock' = <<>>
    /\ ct' = "connect"
    /\ UNCHANGED <<ioVars, only_panic, exitCode, setupVars, pc, spec, bufVars,
                   netVars, ltVars, taken, failure>>

\* ------------------------------------------------------------- Condvar
\* Condvar::wait may return without a notification.
SpuriousWakeup(t) ==
    /\ Running
    /\ \/ /\ t \in streamWait
          /\ streamWait' = streamWait \ {t}
          /\ UNCHANGED bufWait
       \/ /\ t \in bufWait
          /\ bufWait' = bufWait \ {t}
          /\ UNCHANGED streamWait
    /\ UNCHANGED <<ioVars, only_panic, exitCode, setupVars, pc, spec, STREAM,
                   streamLock, buf, bufLock, netVars, ltVars, ctVars, taken,
                   failure>>

Threads == Callers \cup {ListenerThread, ChannelThread}

\* -------------------------------------------------------- specification
CallerStep(c) ==
    \/ CallOnce(c)
    \/ ResolveOk(c)
    \/ BindOk(c)
    \/ SpawnListenerOk(c)
    \/ SpawnChannelOk(c)
    \/ CallerLock(c)
    \/ CallerWait(c)
    \/ CallerTake(c)

ListenerStep ==
    \/ Accept
    \/ ListenerLock
    \/ ListenerCheck

ChannelStep ==
    \/ Connect
    \/ ChannelLockBuf
    \/ ChannelWaitBuf
    \/ ChannelTakeRemote
    \/ ChannelLockStream
    \/ ChannelWaitStream
    \/ ChannelDeliver

NextHealthy ==
    \/ \E c \in Callers : \E s \in GoodSpecs : StartCall(c, s)
    \/ \E c \in Callers : CallerStep(c)
    \/ ListenerStep
    \/ ChannelStep
    \/ \E t \in Threads : SpuriousWakeup(t)

Faults ==
    \/ \E c \in Callers : \E s \in Specs \ GoodSpecs : StartCall(c, s)
    \/ \E c \in Callers : ResolveFail(c)
    \/ \E c \in Callers : SetupFail(c)
    \/ AcceptFail
    \/ ConnectFail

Next == NextHealthy \/ Faults

Spec == Init /\ [][Next]_vars

\* The healthy system under fair scheduling: every thread that can take a
\* step infinitely often takes one.  Calls and spurious wakeups are not
\* forced.
Fairness ==
    /\ \A c \in Callers : SF_vars(CallerStep(c))
    /\ SF_vars(ListenerStep)
    /\ SF_vars(ChannelStep)

\* The feature flag is read by the failure handlers alone.
InitHealthy == Init /\ ~only_panic

LiveSpec == InitHealthy /\ [][NextHealthy]_vars /\ Fairness

\* --------------------------------------------------------- read_assert!
\* The outcome of read_assert!(resource, n, expected), where `resource` is
\* the bytes the reader supplies before its end: read_exact into [0; n]
\* fails when fewer than n bytes come, and its expect() panics; otherwise
\* assert_eq!(&buf[..], &expected[..]) compares the n bytes with expected.
ReadAssertIgnoringShortRead(resource, n, expected) ==
    LET read == [i \in 1..n |-> IF i <= Len(resource) THEN resource[i] ELSE 0]
    IN  IF read = expected THEN "ok" ELSE "panic"
ReadAssert(resource, n, expected) ==
    IF Len(resource) < n
    THEN "panic"
    ELSE LET read == SubSeq(resource, 1, n)
         IN  IF read = expected THEN "ok" ELSE "panic"

Bytes == 0..MaxByte

ByteSeqs == UNION {[1..len -> Bytes] : len \in 0..MaxLen}

\* One use of read_assert! on a finite reader, as in tests::read_assert_ok.
InitReadAssert ==
    /\ InitProgram
    /\ ~only_panic
    /\ \E resource \in ByteSeqs, expected \in ByteSeqs, n \in 0..MaxLen :
          ra = [resource |-> resource, n |-> n, expected |-> expected,
                result |-> "pending"]

RunReadAssert ==
    /\ ra.result = "pending"
    /\ ra' = [ra EXCEPT !.result = ReadAssert(ra.resource, ra.n, ra.expected)]
    /\ UNCHANGED <<wire, only_panic, exitCode, setupVars, pc, spec,
                   streamVars, bufVars, netVars, ltVars, ctVars, taken,
                   failure>>

ReadAssertSpec == InitReadAssert /\ [][RunReadAssert]_vars

\* ------------------------------------------- send_read! (mass_channel.rs)
PayloadLen == 8

\* The byte string test channel_<c> sends: one distinct string per test.
Data(c) == [i \in 1..PayloadLen |-> 16 * c + i]

\* The pair channel() returned to caller c.
PairOf(c) ==
    taken[CHOOSE i \in 1..Len(taken) : taken[i].by = c].pair

\* local.write_all($data): the bytes travel on the connection of `local`.
WriteAll(c) ==
    /\ Running
    /\ pc[c] = "returned"
    /\ wire' = [wire EXCEPT ![PairOf(c).local.conn] = @ \o Data(c)]
    /\ pc' = [pc EXCEPT ![c] = "written"]
    /\ UNCHANGED <<ra, only_panic, exitCode, setupVars, spec, streamVars,
                   bufVars, netVars, ltVars, ctVars, taken, failure>>

\* read_assert!(remote, 8, $data): read_exact blocks until the connection
\* of `remote` has delivered 8 bytes.
ReadAssertRemote(c) ==
    /\ Running
    /\ pc[c] = "written"
    /\ Len(wire[PairOf(c).remote.conn]) >= PayloadLen
    /\ pc' = [pc EXCEPT ![c] =
                 IF ReadAssert(wire[PairOf(c).remote.conn], PayloadLen,
                               Data(c)) = "ok"
                 THEN "passed" ELSE "assert_failed"]
    /\ wire' = [wire EXCEPT ![PairOf(c).remote.conn] =
                   SubSeq(@, PayloadLen + 1, Len(@))]
    /\ UNCHANGED <<ra, only_panic, exitCode, setupVars, spec, streamVars,
                   bufVars, netVars, ltVars, ctVars, taken, failure>>

TestNext ==
    \/ NextHealthy
    \/ \E c \in Callers : WriteAll(c)
    \/ \E c \in Callers : ReadAssertRemote(c)

\* The tests of mass_channel.rs running concurrently, without faults.
TestSpec == InitHealthy /\ [][TestNext]_vars

\* ================================================================ claims
\* The two streams of a pair are the two ends of one connection.
Connected(pair) ==
    /\ pair.local.conn = pair.remote.conn
    /\ pair.local.local_addr = pair.remote.peer_addr
    /\ pair.local.peer_addr = pair.remote.local_addr

\* The calls made so far: every caller that has entered channel_on.
CallsMade == Cardinality({c \in Callers : pc[c] # "idle"})

\* The positions of channel_on after listen_on has returned.
PastListenOn == {"lock", "check", "wait", "returned"}

\* C1: every pair a call returns holds the initiator and the acceptor of the
\* same connection: the local address of each is the peer address of the
\* other.
C1_ReturnedPairIsConnected ==
    \A i \in 1..Len(taken) : Connected(taken[i].pair)

\* C1 witness: the pair of the second connection has been returned.
C1_Witness ==
    \E i \in 1..Len(taken) : taken[i].pair.local.conn = 2

\* C2: no endpoint is returned to two calls, and the delivery slot holds no
\* endpoint that a call has already returned.
C2_ReturnedPairsDisjoint ==
    /\ \A i, j \in 1..Len(taken) :
          i # j => /\ taken[i].pair.local # taken[j].pair.local
                   /\ taken[i].pair.remote # taken[j].pair.remote
    /\ \A i \in 1..Len(taken) :
          STREAM # <<>> => /\ STREAM[1].local # taken[i].pair.local
                           /\ STREAM[1].remote # taken[i].pair.remote

\* C2 witness: two calls have returned and the slot holds a third pair.
C2_Witness ==
    /\ Len(taken) >= 2
    /\ taken[1].by # taken[2].by
    /\ STREAM # <<>>

\* C3: with healthy background threads and fair scheduling every call that
\* was made eventually returns a pair.
C3_EveryCallReturns ==
    \A c \in Callers : (pc[c] # "idle") ~> (pc[c] = "returned")

\* C3 witness: every caller has returned, one of them after the channel
\* thread had to wait for the slot to be emptied.
C3_Witness ==
    /\ \A c \in Callers : pc[c] = "returned"
    /\ Len(taken) = NumCallers
    /\ ct = "wait_stream"

\* C4 as claimed: the connections made never exceed the calls made.
C4_ConnectsOnlyOnRequest == nconn <= CallsMade

\* C4 amended: no connection is made before the first call, and the
\* connections made exceed the calls made by at most two.
C4_ConnectsAheadByTwo ==
    /\ CallsMade = 0 => nconn = 0
    /\ nconn <= CallsMade + 2

\* C4 witness: one call was made and the channel thread has made three
\* connections.
C4_Witness ==
    /\ CallsMade = 1
    /\ nconn = 3

\* C5: the setup body runs at most once, binds one listener and spawns each
\* background thread once, and a caller is past listen_on only when the
\* setup has completed.
C5_SetupRunsOnce ==
    /\ count.runs <= 1
    /\ count.binds <= 1
    /\ count.listeners <= 1
    /\ count.channels <= 1
    /\ \A c \in Callers :
          pc[c] \in PastListenOn =>
              /\ SPAWN_SERVER = "complete"
              /\ count = [runs |-> 1, binds |-> 1, listeners |-> 1,
                          channels |-> 1]

\* C5 witness: a first call raced another one, which is past listen_on
\* after the winner's setup.
C5_Witness ==
    \E c, d \in Callers :
        /\ c # d
        /\ pc[c] = "call_once"
        /\ pc[d] \in PastListenOn
        /\ count.runs = 1

\* C6: once the address is established it never changes; a call that finds
\* the setup completed goes on to wait for a pair without resolving its own
\* address, whatever it passed; and every pair connects to the established
\* address.
C6_AddressIsFirstCallers ==
    /\ [](\A i \in 1..Len(taken) :
              /\ taken[i].pair.local.peer_addr = address[1]
              /\ taken[i].pair.remote.local_addr = address[1])
    /\ [][address # <<>> => address' = address]_vars
    /\ [][\A c \in Callers :
              (/\ pc[c] = "call_once"
               /\ SPAWN_SERVER = "complete"
               /\ pc'[c] # pc[c])
              => /\ pc'[c] = "lock"
                 /\ count' = count]_vars

\* C6 witness: with the default address established and a pair returned, a
\* call that passed an address resolving to another one finds the Once done.
C6_Witness ==
    \E c, d \in Callers :
        /\ address = <<DEFAULT_ADDRESS>>
        /\ pc[c] = "call_once"
        /\ spec[c] # <<>>
        /\ ToSocketAddrs(spec[c][1]).addrs # <<>>
        /\ Head(ToSocketAddrs(spec[c][1]).addrs) # DEFAULT_ADDRESS
        /\ SPAWN_SERVER = "complete"
        /\ pc[d] = "returned"

\* C7: STREAM changes only by the channel thread filling the empty slot
\* under its lock, or by a caller taking the pair out of the full slot and
\* leaving it empty in one step under its lock.
C7_SlotHoldsOnePair ==
    [][STREAM' # STREAM =>
         \/ /\ STREAM = <<>>
            /\ Len(STREAM') = 1
            /\ streamLock = <<ChannelThread>>
         \/ /\ Len(STREAM) = 1
            /\ STREAM' = <<>>
            /\ \E c \in Callers :
                  /\ streamLock = <<c>>
                  /\ taken' = Append(taken, [by |-> c, pair |-> STREAM[1]])]_vars

\* C7 witness: the channel thread holds a finished pair and waits because
\* the slot is occupied.
C7_Witness ==
    /\ ct = "wait_stream"
    /\ STREAM # <<>>
    /\ ctLocal # <<>>
    /\ ctRemote # <<>>

\* C8 as claimed: after a background thread failed no call returns a pair.
C8_NoReturnAfterFailure ==
    failure # <<>> => Len(taken) = failure[1].returned

\* C8 amended: after a background thread failed, calls return only pairs of
\* connections made before the failure, and at most two of them.
C8_OnlyEarlierPairsAfterFailure ==
    failure # <<>> =>
        /\ \A i \in 1..Len(taken) :
              /\ taken[i].pair.local.conn <= failure[1].conns
              /\ taken[i].pair.remote.conn <= failure[1].conns
        /\ Len(taken) <= failure[1].returned + 2

\* C8 witness: one call returned after the failure and another is blocked.
C8_Witness ==
    /\ failure # <<>>
    /\ Len(taken) = failure[1].returned + 1
    /\ \E c \in Callers : pc[c] = "wait" /\ c \in streamWait

\* C9: without only_panic a failed background thread exits the process with
\* status 1, so no thread is stopped while the process runs; with only_panic
\* the thread panics and the process is not exited.
C9_FailurePolicy ==
    /\ failure # <<>> /\ ~only_panic =>
          /\ exitCode = <<1>>
          /\ lt # "panicked"
          /\ ct # "panicked"
    /\ failure # <<>> /\ only_panic =>
          /\ exitCode = <<>>
          /\ lt = "panicked" \/ ct = "panicked"
          /\ lt # "exited"
          /\ ct # "exited"
    /\ failure = <<>> =>
          /\ exitCode = <<>>
          /\ lt \notin {"panicked", "exited"}
          /\ ct \notin {"panicked", "exited"}

\* C9 witness: the default policy exited the process while a caller was
\* blocked on the delivery slot.
C9_Witness ==
    /\ ~only_panic
    /\ exitCode = <<1>>
    /\ \E c \in Callers : pc[c] = "wait"

\* C10: when resolving or binding fails the calling thread panics, no
\* background thread was spawned and the process is not exited.
C10_EarlySetupFailure ==
    setupFail \in {"resolve", "bind"} =>
        /\ \E c \in Callers : pc[c] = "panicked"
        /\ lt = "none"
        /\ ct = "none"
        /\ count.listeners = 0
        /\ count.channels = 0
        /\ exitCode = <<>>
        /\ failure = <<>>

\* C10 witness: binding the listener failed.
C10_Witness ==
    /\ setupFail = "bind"
    /\ \E c \in Callers : pc[c] = "panicked"

\* The pairs written into STREAM so far: those taken and the one in the slot.
Delivered == Len(taken) + Len(STREAM)

\* C11: at most one connection is connected and not yet part of a pair in
\* the delivery slot, and the channel thread is about to connect only when
\* every earlier connection has been delivered as a pair.
C11_PairConstructionSerialized ==
    /\ nconn - Delivered <= 1
    /\ nconn >= Delivered
    /\ ct = "connect" => nconn = Delivered
    /\ nconn > Delivered => ct \notin {"none", "connect"}

\* C11 witness: the first pair is in the slot while the second connection
\* waits for its accepted end.
C11_Witness ==
    /\ nconn = 2
    /\ STREAM # <<>>
    /\ STREAM[1].local.conn = 1
    /\ ct = "wait_buf"
    /\ ctRemote = <<>>

\* C12: in every returned pair the first stream is the initiator (its peer
\* is the listening address, its own address the connection's ephemeral
\* port) and the second the acceptor (its own address is the listening
\* address).
C12_FirstIsInitiator ==
    \A i \in 1..Len(taken) :
        /\ taken[i].pair.local.peer_addr = address[1]
        /\ taken[i].pair.local.local_addr = EphemeralPort(taken[i].pair.local.conn)
        /\ taken[i].pair.remote.local_addr = address[1]
        /\ taken[i].pair.remote.peer_addr = EphemeralPort(taken[i].pair.remote.conn)

\* C12 witness: every caller holds a pair on the non-default address.
C12_Witness ==
    /\ Len(taken) = NumCallers
    /\ address = <<OtherAddress>>
    /\ \A c \in Callers : pc[c] = "returned"

\* C15: the listener thread never finds buf occupied once it has locked
\* it, and never waits on buf's condvar.
C15_ListenerNeverWaits ==
    /\ lt = "check" => buf = <<>>
    /\ lt # "wait"
    /\ ListenerThread \notin bufWait

\* C15 witness: the listener holds buf's lock with the accepted end of the
\* second connection.
C15_Witness ==
    /\ lt = "check"
    /\ bufLock = <<ListenerThread>>
    /\ ltI # <<>>
    /\ ltI[1].conn = 2

\* No call is in progress: the setup is done and every caller either has
\* not called or has returned.
NoCallerActive ==
    /\ ct # "none"
    /\ \A c \in Callers : pc[c] \in {"idle", "returned"}

\* The channel thread is in wait() on STREAM's condvar with a pair in hand
\* and the slot occupied.
ChannelBlocked ==
    /\ ct = "wait_stream"
    /\ ChannelThread \in streamWait
    /\ STREAM # <<>>
    /\ nconn = Len(taken) + 2

\* C16: the connections made exceed the pairs returned by at most two, and
\* while no call is in progress the channel thread comes to block on the
\* occupied slot.
C16_BoundedPrefetch ==
    /\ [](nconn - Len(taken) <= 2)
    /\ NoCallerActive ~> (ChannelBlocked \/ ~NoCallerActive)

\* C16 witness: a caller has returned, no call is in progress and the
\* channel thread is blocked two pairs ahead.
C16_Witness ==
    /\ NoCallerActive
    /\ ChannelBlocked
    /\ Len(taken) = 1

\* C17: the j-th pair taken out of STREAM is the pair of the j-th
\* connection.
C17_TakenInCreationOrder ==
    \A j \in 1..Len(taken) :
        /\ taken[j].pair.local.conn = j
        /\ taken[j].pair.remote.conn = j

\* C17 witness: the callers took their pairs in the reverse order of their
\* numbers, one of them after having waited.
C17_Witness ==
    /\ Len(taken) = NumCallers
    /\ taken[1].by = NumCallers
    /\ taken[NumCallers].by = 1

\* C18: a caller is past listen_on only when the setup completed without a
\* panic; once the setup has panicked it is never run again and every call
\* that has gone through call_once has panicked.
C18_FailedSetupFailsLaterCalls ==
    /\ \A c \in Callers :
          pc[c] \in PastListenOn =>
              /\ setupFail = "none"
              /\ SPAWN_SERVER = "complete"
              /\ lt # "none"
              /\ ct # "none"
    /\ setupFail # "none" =>
          /\ SPAWN_SERVER = "poisoned"
          /\ count.runs = 1
          /\ \A c \in Callers : pc[c] \in {"idle", "call_once", "panicked"}

\* C18 witness: the setup panicked when spawning the channel thread and
\* every caller, the later ones included, has panicked.
C18_Witness ==
    /\ setupFail = "spawn_channel"
    /\ \A c \in Callers : pc[c] = "panicked"

\* C19: no thread owns buf's mutex and STREAM's mutex at once; the listener
\* thread owns only buf's and callers own only STREAM's.
C19_NeverBothLocks ==
    /\ bufLock # <<>> /\ streamLock # <<>> => bufLock # streamLock
    /\ bufLock \in {<<>>, <<ListenerThread>>, <<ChannelThread>>}
    /\ streamLock \in {<<>>, <<ChannelThread>>} \cup {<<c>> : c \in Callers}
    /\ ct \in {"lock_stream", "check_stream", "wait_stream"} =>
          bufLock # <<ChannelThread>>

\* C19 witness: the channel thread owns buf's mutex while a caller owns
\* STREAM's.
C19_Witness ==
    /\ bufLock = <<ChannelThread>>
    /\ \E c \in Callers : streamLock = <<c>>

\* C13: no caller's read_assert! fails, and the bytes in flight on the
\* connection a caller reads from are exactly the bytes it wrote: all of
\* them until it has read, none afterwards.
C13_NoCrossTalk ==
    \A c \in Callers :
        /\ pc[c] # "assert_failed"
        /\ pc[c] = "written" => wire[PairOf(c).remote.conn] = Data(c)
        /\ pc[c] = "passed" => wire[PairOf(c).remote.conn] = <<>>

\* C13 witness: every caller has written, one has read its bytes back
\* while another's are still in flight.
C13_Witness ==
    /\ \E c \in Callers : pc[c] = "passed"
    /\ \E c \in Callers : pc[c] = "written"
    /\ \A c \in Callers : pc[c] \in {"passed", "written"}

\* C14: read_assert! succeeds exactly when the resource supplies n bytes
\* and expected has n bytes equal to them position by position.
C14_ReadAssertIffEqual ==
    ra.result # "pending" =>
        (ra.result = "ok" <=>
            /\ Len(ra.resource) >= ra.n
            /\ Len(ra.expected) = ra.n
            /\ \A i \in 1..ra.n : ra.resource[i] = ra.expected[i])

\* C14 witness: read_assert! panicked on bytes that differ from expected in
\* the last position only.
C14_Witness ==
    /\ ra.result = "panic"
    /\ ra.n = MaxLen
    /\ Len(ra.resource) = MaxLen
    /\ Len(ra.expected) = MaxLen
    /\ \A i \in 1..(MaxLen - 1) : ra.resource[i] = ra.expected[i]
    /\ ra.resource[MaxLen] # ra.expected[MaxLen]

====
